---- MODULE Spec2Model ----
(***************************************************************************)
(* A model of three parts of the RMDB engine:                              *)
(*   - ExternalMergeSorter (src/src/execution/external_merge_sort.h),      *)
(*   - the query planner   (src/unnamed/part_000, planner.cpp),            *)
(*   - LRUReplacer         (src/src/replacer/lru_replacer.cpp).            *)
(* Each part has its own specification over its own variables; the other   *)
(* parts' variables stay at their initial values.                          *)
(***************************************************************************)
EXTENDS Integers, Sequences, FiniteSets, TLC

(***************************************************************************)
(* Bounds of the model.                                                    *)
(***************************************************************************)
\* largest NUM_RECORD_PER_FILE a sorter is constructed with
MaxRecordsPerFile == 2
\* largest number of write() calls in one session
MaxWrites == 10
\* system-call failures are injected in sessions of at most this many writes
MaxFailWrites == 4
\* largest number of conditions in the WHERE clause of a select
MaxConds == 2
\* largest number of conditions in a WHERE clause made of join conditions only
MaxJoinConds == 3
\* largest number of conditions of a statement planned up to its root plan
MaxWrapConds == 2
\* largest number of indexes and of conditions of a delete / update whose
\* reordered condition list is compared with the list as written
MaxKeyIndexes == 2
MaxKeyConds == 3
\* largest number of join conditions of a select whose last condition has
\* any comparator
MaxPushConds == 3
\* largest number of indexes on the table of a delete / update
MaxIndexes == 3
\* largest number of conditions in the WHERE clause of a delete / update
MaxDmlConds == 3
\* num_pages of the replacer: the frame ids are 0 .. MaxFrames - 1
MaxFrames == 3
\* largest number of list nodes a replacer allocates in one run
MaxNodes == 4

VARIABLES
    \* ---- ExternalMergeSorter ----
    NUM_RECORD_PER_FILE, \* records per run file (constructor argument)
    ascending,          \* the comparator cmp_: TRUE ascending, FALSE descending
    filenames_,         \* ids of the run files created, in creation order
    disk,               \* file id -> [exists, bytes]: the working directory
    data,               \* 0 = nullptr, else the id of the file mapped at data
    mapped,             \* whether the mapping at data is still live
    index,              \* offset of the next record in the mapped file
    isFull,             \* whether the current file is full
    opened_files,       \* per run: [open, pos, eof, bad]
    record_list,        \* per run: its front record
    heap,               \* the loser tree, 0..size-1 -> run index or -1
    phase,              \* where the caller is: write, ended, reading, ...
    err,                \* the exception surfaced to the caller, or "none"
    syscall_failed,     \* the system call that has failed, or "none" (history)
    ub,                 \* whether undefined behaviour has been evaluated
    input,              \* the records written so far (history)
    out,                \* per read so far: the record returned and its run (history)
    \* ---- Planner ----
    parse,              \* kind of the AST root: Select, Delete, Update, ...
    query,              \* [has_sort, order_col, has_aggr, has_group] of the query
    tables,             \* query->tables, the FROM list
    conds,              \* query->conds
    db_,                \* the catalog: table -> its indexes, each a column list
    enable_nestedloop_join,
    enable_sortmerge_join,
    table_scan_executors,   \* make_one_rel: one ScanPlan per FROM table
    jconds,             \* make_one_rel: the local conds (moved from query->conds)
    scantbl,            \* make_one_rel: -1 / 1 per FROM table
    joined_tables,      \* make_one_rel: names of the tables joined so far
    table_join_executors,   \* make_one_rel: the join tree built so far
    plannerRoot,        \* do_planner: the plan returned
    perr,               \* the error thrown by the planner, or "none"
    pc,                 \* the planner's position
    \* ---- LRUReplacer ----
    LRUlist_,           \* the list, front first: nodes [node, frame]
    LRUhash_,           \* frame -> the node its iterator points at, 0 = end()
    nodes,              \* number of list nodes allocated so far
    victim_ret,         \* what the last victim() returned, [ok, frame_id]
    lru_phase,          \* idle, run, crashed
    lru_ub,             \* whether undefined behaviour has been evaluated
    evictable,          \* frames in the order they became evictable (history)
    pinned              \* frames pinned since their last unpin (history)

emsVars == <<NUM_RECORD_PER_FILE, ascending, filenames_, disk, data, mapped,
             index, isFull, opened_files, record_list, heap, phase, err,
             syscall_failed, ub, input, out>>

planVars == <<parse, query, tables, conds, db_, enable_nestedloop_join,
              enable_sortmerge_join, table_scan_executors, jconds, scantbl,
              joined_tables, table_join_executors, plannerRoot, perr, pc>>

lruVars == <<LRUlist_, LRUhash_, nodes, victim_ret, lru_phase, lru_ub,
             evictable, pinned>>

vars == <<emsVars, planVars, lruVars>>

\* record keys; 0 is the content of a never-written slot
Keys == {1, 2}

(***************************************************************************)
(* Helpers on sequences.                                                   *)
(***************************************************************************)
RECURSIVE Pow2(_)
Pow2(n) == IF n <= 0 THEN 1 ELSE 2 * Pow2(n - 1)

Range(s) == {s[i] : i \in DOMAIN s}

\* number of occurrences of v in s
Count(s, v) == Cardinality({i \in DOMAIN s : s[i] = v})

(***************************************************************************)
(* The comparator cmp_(a, b, arg_): negative, zero or positive.            *)
(***************************************************************************)
cmp_(a, b) == IF ascending THEN a - b ELSE b - a

\* insert record r into the sequence s, sorted under cmp_, after its equals
RECURSIVE InsertSorted(_, _)
InsertSorted(s, r) ==
    IF s = <<>> THEN <<r>>
    ELSE IF cmp_(r, Head(s)) < 0 THEN <<r>> \o s
    ELSE <<Head(s)>> \o InsertSorted(Tail(s), r)

\* ::qsort_r(base, n, RECORD_SIZE, cmp_, arg_): the first n records of bytes
\* sorted under cmp_, the rest untouched
RECURSIVE SortRecords(_)
SortRecords(s) ==
    IF s = <<>> THEN <<>> ELSE InsertSorted(SortRecords(Tail(s)), Head(s))

qsort_r(bytes, n) ==
    SortRecords(SubSeq(bytes, 1, n)) \o SubSeq(bytes, n + 1, Len(bytes))

\* an ftruncate that leaves the file as it is
ftruncateNothing(bytes, n) == bytes

\* ftruncate(fd, n * RECORD_SIZE): cut, or extend with zero bytes
ftruncate(bytes, n) ==
    [i \in 1..n |-> IF i <= Len(bytes) THEN bytes[i] ELSE 0]

EMSInit ==
    /\ NUM_RECORD_PER_FILE \in 1..MaxRecordsPerFile
    /\ ascending \in BOOLEAN
    /\ filenames_ = <<>>
    /\ disk = <<>>
    /\ data = 0
    /\ mapped = FALSE
    /\ index = 0
    /\ isFull = TRUE
    /\ opened_files = <<>>
    /\ record_list = <<>>
    /\ heap = <<>>
    /\ phase = "write"
    /\ err = "none"
    /\ syscall_failed = "none"
    /\ ub = FALSE
    /\ input = <<>>
    /\ out = <<>>

\* the sorter before construction: the state of the other specifications
EMSIdle ==
    /\ NUM_RECORD_PER_FILE = 1
    /\ ascending = TRUE
    /\ filenames_ = <<>>
    /\ disk = <<>>
    /\ data = 0
    /\ mapped = FALSE
    /\ index = 0
    /\ isFull = TRUE
    /\ opened_files = <<>>
    /\ record_list = <<>>
    /\ heap = <<>>
    /\ phase = "idle"
    /\ err = "none"
    /\ syscall_failed = "none"
    /\ ub = FALSE
    /\ input = <<>>
    /\ out = <<>>

(***************************************************************************)
(* write(record)                                                           *)
(***************************************************************************)
\* stores through the mapping at data reach the file only while it is live
StoreRecord(d, f, live, i, r) ==
    IF live THEN [d EXCEPT ![f].bytes[i] = r] ELSE d

SortMapped(d, f, live, n) ==
    IF live THEN [d EXCEPT ![f].bytes = qsort_r(@, n)] ELSE d

\* mkstemp + ftruncate(fd, NUM_RECORD_PER_FILE * RECORD_SIZE): a new file of
\* NUM_RECORD_PER_FILE zeroed slots
NewRunFile == [exists |-> TRUE, bytes |-> [i \in 1..NUM_RECORD_PER_FILE |-> 0]]

\* the body of write() from a state whose mapping (if any) is usable
WriteBody(r) ==
    LET d1  == IF isFull /\ data # 0
               THEN SortMapped(disk, data, mapped, NUM_RECORD_PER_FILE)
               ELSE disk
        d2  == IF isFull THEN Append(d1, NewRunFile) ELSE d1
        dat == IF isFull THEN Len(d2) ELSE data
        liv == IF isFull THEN TRUE ELSE mapped
        idx == IF isFull THEN 0 ELSE index
    IN  /\ filenames_' = IF isFull THEN Append(filenames_, Len(d2)) ELSE filenames_
        /\ disk' = StoreRecord(d2, dat, liv, idx + 1, r)
        /\ data' = dat
        /\ mapped' = liv
        /\ index' = idx + 1
        /\ isFull' = (idx + 1 = NUM_RECORD_PER_FILE)

\* write() during the write phase
Write ==
    /\ UNCHANGED <<planVars, lruVars>>
    /\ phase = "write"
    /\ Len(input) < MaxWrites
    /\ \E r \in Keys :
         /\ WriteBody(r)
         /\ input' = Append(input, r)
    /\ UNCHANGED <<NUM_RECORD_PER_FILE, ascending, syscall_failed, opened_files, record_list,
                   heap, phase, err, ub, out>>

\* write() after endWrite(): the code has no phase check.  With data still
\* nullptr (nothing was written) the call is well defined and creates a run
\* file.  Otherwise data dangles (endWrite unmapped it, line 83) and the
\* qsort_r / memcpy through it is undefined: the process dies, or runs on
\* with the stores lost.
WriteAfterEnd ==
    /\ UNCHANGED <<planVars, lruVars>>
    /\ phase = "ended"
    /\ \E r \in Keys :
         \/ /\ WriteBody(r)
            /\ phase' = "misused"
            /\ ub' = (ub \/ data # 0)
         \/ /\ data # 0
            /\ phase' = "crashed"
            /\ ub' = TRUE
            /\ UNCHANGED <<filenames_, disk, data, mapped, index, isFull>>
    /\ UNCHANGED <<NUM_RECORD_PER_FILE, ascending, syscall_failed, opened_files, record_list,
                   heap, err, input, out>>

(***************************************************************************)
(* endWrite()                                                              *)
(***************************************************************************)
EndWriteDisk ==
    IF data # 0
    THEN [disk EXCEPT ![filenames_[Len(filenames_)]].bytes =
                          ftruncate(qsort_r(@, index), index)]
    ELSE disk

EndWrite ==
    /\ UNCHANGED <<planVars, lruVars>>
    /\ phase = "write"
    /\ disk' = EndWriteDisk
    /\ mapped' = FALSE
    /\ phase' = "ended"
    /\ UNCHANGED <<NUM_RECORD_PER_FILE, ascending, syscall_failed, filenames_, data, index,
                   isFull, opened_files, record_list, heap, err, ub, input, out>>

(***************************************************************************)
(* beginRead()                                                             *)
(***************************************************************************)
\* int height = std::ceil(std::log2(k)) for k >= 1
RECURSIVE CeilLog2(_)
CeilLog2(k) == IF k <= 1 THEN 0 ELSE 1 + CeilLog2((k + 1) \div 2)

Height(k) == CeilLog2(k)

\* the leaf level: run i at 2^h + i for i < k, the dummy -1 beyond
LeafValue(k, h, node) == IF node - Pow2(h) < k THEN node - Pow2(h) ELSE -1

\* the match of the build with the comparison turned round
LeftWinsReversed(recs, l, r) ==
    l # -1 /\ (r = -1 \/ cmp_(recs[l + 1], recs[r + 1]) >= 0)

\* one match of the build (lines 128-130): does the left winner beat the right
LeftWins(recs, l, r) ==
    l # -1 /\ (r = -1 \/ cmp_(recs[l + 1], recs[r + 1]) <= 0)

\* winners[node] of the bottom-up build
RECURSIVE Winners(_, _, _, _)
Winners(recs, k, h, node) ==
    IF node >= Pow2(h) THEN LeafValue(k, h, node)
    ELSE LET l == Winners(recs, k, h, 2 * node)
             r == Winners(recs, k, h, 2 * node + 1)
         IN  IF LeftWins(recs, l, r) THEN l ELSE r

\* heap[node] after the build: leaves, losers, and the winner at 0
BuildHeap(recs, k, h) ==
    [node \in 0..(Pow2(h + 1) - 1) |->
        IF node = 0 THEN Winners(recs, k, h, 1)
        ELSE IF node >= Pow2(h) THEN LeafValue(k, h, node)
        ELSE LET l == Winners(recs, k, h, 2 * node)
                 r == Winners(recs, k, h, 2 * node + 1)
             IN  IF LeftWins(recs, l, r) THEN r ELSE l]

\* std::ifstream file(filename); file.read(record, RECORD_SIZE)
OpenRun(f) ==
    [open |-> TRUE, pos |-> IF Len(disk[f].bytes) >= 1 THEN 1 ELSE 0,
     eof |-> Len(disk[f].bytes) = 0, bad |-> FALSE]

FirstRecord(f) == IF Len(disk[f].bytes) >= 1 THEN disk[f].bytes[1] ELSE 0

BeginRead ==
    /\ UNCHANGED <<planVars, lruVars>>
    /\ phase = "ended"
    /\ LET k == Len(filenames_) IN
         IF k = 0
         THEN \* log2(0) is -inf and its conversion to int is undefined, as are
              \* the shifts by it: the build that masks shift counts ends with a
              \* two-slot heap of dummies, another may die
              /\ ub' = TRUE
              /\ \/ /\ phase' = "reading"
                    /\ heap' = [node \in 0..1 |-> -1]
                 \/ /\ phase' = "crashed"
                    /\ heap' = heap
              /\ UNCHANGED <<opened_files, record_list>>
         ELSE /\ opened_files' = [i \in 1..k |-> OpenRun(filenames_[i])]
              /\ record_list' = [i \in 1..k |-> FirstRecord(filenames_[i])]
              /\ heap' = BuildHeap(record_list', k, Height(k))
              /\ phase' = "reading"
              /\ ub' = ub
    /\ UNCHANGED <<NUM_RECORD_PER_FILE, ascending, syscall_failed, filenames_, disk, data,
                   mapped, index, isFull, err, input, out>>

(***************************************************************************)
(* read(record) and adjust()                                               *)
(***************************************************************************)
\* the replay with the comparison turned round
StaysWinnerReversed(recs, winner, loser) ==
    winner # -1 /\ (loser = -1 \/ cmp_(recs[winner + 1], recs[loser + 1]) >= 0)

\* one match of the replay (lines 159-160): does the travelling winner stay
StaysWinner(recs, winner, loser) ==
    winner # -1 /\ (loser = -1 \/ cmp_(recs[winner + 1], recs[loser + 1]) <= 0)

\* the while loop of adjust(): <<heap, winner>> once cur has reached 1
RECURSIVE Replay(_, _, _, _)
Replay(recs, hp, cur, winner) ==
    IF cur = 1 THEN [hp EXCEPT ![0] = winner]
    ELSE LET parent == cur \div 2 IN
         IF StaysWinner(recs, winner, hp[parent])
         THEN Replay(recs, hp, parent, winner)
         ELSE Replay(recs, [hp EXCEPT ![parent] = winner], parent, hp[parent])

\* an unlink that removes nothing
unlinkNothing(d, f) == d

\* unlink(filenames_[file_index].c_str()), line 154
unlink(d, f) == [d EXCEPT ![f].exists = FALSE]

Adjust ==
    LET file_index == heap[0]
        run  == file_index + 1
        f    == filenames_[run]
        of   == opened_files[run]
        \* a read on a stream whose badbit is set does nothing: the record
        \* stays and eof() stays false
        more == of.bad \/ of.pos < Len(disk[f].bytes)
        recs == IF more /\ ~of.bad
                THEN [record_list EXCEPT ![run] = disk[f].bytes[of.pos + 1]]
                ELSE record_list
        cur  == file_index + Pow2(Height(Len(filenames_)))
        hp   == IF more THEN heap ELSE [heap EXCEPT ![cur] = -1]
        winner == IF more THEN file_index ELSE -1
    IN  /\ record_list' = recs
        /\ opened_files' = [opened_files EXCEPT ![run] =
                               IF of.bad THEN @
                               ELSE IF more THEN [@ EXCEPT !.pos = @ + 1]
                               ELSE [open |-> FALSE, pos |-> of.pos,
                                     eof |-> TRUE, bad |-> FALSE]]
        /\ disk' = IF more THEN disk ELSE unlink(disk, f)
        /\ heap' = Replay(recs, hp, cur, winner)

\* the caller tracks the count: read is called while records remain
Read ==
    /\ UNCHANGED <<planVars, lruVars>>
    /\ phase = "reading"
    /\ Len(out) < Len(input)
    /\ IF heap[0] = -1
       THEN \* record_list[-1]: out of range
            /\ phase' = "crashed"
            /\ ub' = TRUE
            /\ UNCHANGED <<opened_files, record_list, heap, disk, out>>
       ELSE /\ out' = Append(out, [rec |-> record_list[heap[0] + 1],
                                   run |-> heap[0]])
            /\ Adjust
            /\ UNCHANGED <<phase, ub>>
    /\ UNCHANGED <<NUM_RECORD_PER_FILE, ascending, syscall_failed, filenames_, data, mapped,
                   index, isFull, err, input>>

(***************************************************************************)
(* Destruction: the class declares no destructor, so the members are       *)
(* destroyed (streams closed, buffers freed) and nothing else happens.     *)
(***************************************************************************)
Destroy ==
    /\ UNCHANGED <<planVars, lruVars>>
    /\ phase \in {"write", "ended", "reading", "misused", "thrown"}
    /\ phase' = "destroyed"
    /\ opened_files' = [i \in DOMAIN opened_files |->
                           [opened_files[i] EXCEPT !.open = FALSE]]
    /\ mapped' = FALSE
    /\ UNCHANGED <<NUM_RECORD_PER_FILE, ascending, syscall_failed, filenames_, disk, data,
                   index, isFull, record_list, heap, err, ub, input, out>>

(***************************************************************************)
(* The same operations when a system call fails.                           *)
(***************************************************************************)
\* write() when a call of its isFull branch fails
WriteFail ==
    /\ UNCHANGED <<planVars, lruVars>>
    /\ phase = "write"
    /\ isFull
    /\ Len(input) <= MaxFailWrites
    /\ LET d1 == IF data # 0
                 THEN SortMapped(disk, data, mapped, NUM_RECORD_PER_FILE)
                 ELSE disk
       IN  \E call \in {"mkstemp", "ftruncate", "mmap"} :
             /\ syscall_failed' = call
             /\ filenames_' = Append(filenames_, Len(d1) + 1)
             /\ CASE call = "mkstemp" ->
                      \* lines 58-62: the template is recorded as a run name
                      \* although no file was created, then UnixError
                      /\ disk' = Append(d1, [exists |-> FALSE, bytes |-> <<>>])
                      /\ mapped' = FALSE
                      /\ err' = "UnixError"
                      /\ phase' = "thrown"
                      /\ UNCHANGED <<data, index, isFull>>
                  [] call = "ftruncate" ->
                      \* line 63: the result is not looked at.  The file stays
                      \* empty, mmap succeeds on it, and the memcpy of line 73
                      \* into the page past its end raises SIGBUS
                      /\ disk' = Append(d1, [exists |-> TRUE, bytes |-> <<>>])
                      /\ data' = Len(d1) + 1
                      /\ mapped' = TRUE
                      /\ isFull' = FALSE
                      /\ index' = 0
                      /\ err' = err
                      /\ phase' = "crashed"
                  [] call = "mmap" ->
                      \* lines 64-68: data is MAP_FAILED, not nullptr
                      /\ disk' = Append(d1, NewRunFile)
                      /\ data' = Len(d1) + 1
                      /\ mapped' = FALSE
                      /\ err' = "UnixError"
                      /\ phase' = "thrown"
                      /\ UNCHANGED <<index, isFull>>
    /\ UNCHANGED <<NUM_RECORD_PER_FILE, ascending, opened_files, record_list,
                   heap, ub, input, out>>

\* endWrite() when a call of it fails
EndWriteFail ==
    /\ UNCHANGED <<planVars, lruVars>>
    /\ phase = "write"
    /\ data # 0
    /\ Len(input) <= MaxFailWrites
    /\ disk' = SortMapped(disk, data, mapped, index)
    /\ mapped' = FALSE
    /\ \E call \in {"open", "ftruncate"} :
         /\ syscall_failed' = call
         /\ IF call = "open"
            THEN \* lines 84-87
                 err' = "UnixError" /\ phase' = "thrown"
            ELSE \* line 88: the result is not looked at, the file keeps its
                 \* NUM_RECORD_PER_FILE slots and endWrite returns
                 err' = err /\ phase' = "ended"
    /\ UNCHANGED <<NUM_RECORD_PER_FILE, ascending, filenames_, data, index,
                   isFull, opened_files, record_list, heap, ub, input, out>>

\* beginRead() when opening run i, or reading its first record, fails
BeginReadFail ==
    /\ UNCHANGED <<planVars, lruVars>>
    /\ phase = "ended"
    /\ Len(input) <= MaxFailWrites
    /\ LET k == Len(filenames_) IN
       \E i \in 1..k :
         \/ \* lines 98-101: the runs before i are open, then UnixError
            /\ syscall_failed' = "open"
            /\ opened_files' = [j \in 1..(i - 1) |-> OpenRun(filenames_[j])]
            /\ record_list' = [j \in 1..(i - 1) |-> FirstRecord(filenames_[j])]
            /\ err' = "UnixError"
            /\ phase' = "thrown"
            /\ UNCHANGED <<heap, ub>>
         \/ \* line 106: the stream's state is not looked at; the record of
            \* run i keeps the indeterminate content of new char[RECORD_SIZE]
            \* and the tree is built on it
            /\ syscall_failed' = "read"
            /\ opened_files' =
                  [j \in 1..k |->
                      IF j = i THEN [open |-> TRUE, pos |-> 0, eof |-> FALSE,
                                     bad |-> TRUE]
                      ELSE OpenRun(filenames_[j])]
            /\ \E junk \in Keys \cup {0} :
                  record_list' = [j \in 1..k |->
                                     IF j = i THEN junk
                                     ELSE FirstRecord(filenames_[j])]
            /\ heap' = BuildHeap(record_list', k, Height(k))
            /\ ub' = TRUE
            /\ err' = err
            /\ phase' = "reading"
    /\ UNCHANGED <<NUM_RECORD_PER_FILE, ascending, filenames_, disk, data,
                   mapped, index, isFull, input, out>>

\* read() when the read of the next record in adjust() fails: line 146 sets
\* the stream's badbit, the record stays, eof() is false, and the run
\* replays with the record just returned
ReadFail ==
    /\ UNCHANGED <<planVars, lruVars>>
    /\ phase = "reading"
    /\ Len(out) < Len(input)
    /\ Len(input) <= MaxFailWrites
    /\ heap[0] # -1
    /\ ~opened_files[heap[0] + 1].bad
    /\ syscall_failed' = "read"
    /\ out' = Append(out, [rec |-> record_list[heap[0] + 1], run |-> heap[0]])
    /\ opened_files' = [opened_files EXCEPT ![heap[0] + 1].bad = TRUE]
    /\ heap' = Replay(record_list, heap,
                      heap[0] + Pow2(Height(Len(filenames_))), heap[0])
    /\ UNCHANGED <<NUM_RECORD_PER_FILE, ascending, filenames_, disk, data,
                   mapped, index, isFull, record_list, phase, err, ub, input>>

(***************************************************************************)
(* ExternalMergeSorter: the properties.                                    *)
(***************************************************************************)
\* the records read so far
OutRecords == [i \in DOMAIN out |-> out[i].rec]

NonDecreasing(s) == \A i, j \in DOMAIN s : i < j => cmp_(s[i], s[j]) <= 0

SameMultiset(s, t) ==
    \A v \in Range(s) \cup Range(t) : Count(s, v) = Count(t, v)

\* how many reads returned a record of run i (0-based)
Returned(i) == Cardinality({j \in DOMAIN out : out[j].run = i})

\* C1: after write x N, endWrite, beginRead, the records read are
\* non-decreasing under the comparator, and once N have been read they are
\* a permutation (as a multiset) of the records written.
C1_SortCorrectness ==
    phase = "reading" =>
        /\ NonDecreasing(OutRecords)
        /\ Len(out) = Len(input) => SameMultiset(OutRecords, input)

\* a complete cycle of N = 10 * records_per_file records that were not
\* written in order
C1_Witness ==
    /\ phase = "reading"
    /\ Len(input) = 10 * NUM_RECORD_PER_FILE
    /\ Len(out) = Len(input)
    /\ OutRecords # input

\* C2: during the read phase a run file exists exactly while some record of
\* it has not been returned by read (so it is unlinked by the read that
\* consumes its final record, and never earlier), and after a complete cycle
\* no run file exists.
C2_TempFileHygiene ==
    phase = "reading" =>
        /\ \A i \in DOMAIN filenames_ :
              disk[filenames_[i]].exists
                  <=> Returned(i - 1) < Len(disk[filenames_[i]].bytes)
        /\ Len(out) = Len(input) => \A f \in DOMAIN disk : ~disk[f].exists

\* a complete cycle over at least three runs, all of them unlinked
C2_Witness ==
    /\ phase = "reading"
    /\ Len(filenames_) >= 3
    /\ Len(out) = Len(input)
    /\ \A f \in DOMAIN disk : ~disk[f].exists

\* C8: once the sorter is destroyed, no run file it created exists.
C8_CleanupOnDestruction ==
    phase = "destroyed" => \A f \in DOMAIN disk : ~disk[f].exists

\* C9: a write after endWrite is rejected with an error and changes neither
\* a run file nor the set of runs.
C9_WriteAfterEndRejected ==
    [][(phase = "ended" /\ phase' \in {"misused", "crashed"})
          => (err' # "none" /\ disk' = disk /\ filenames_' = filenames_)]_vars

\* the runs (1-based) that still have a front record
NonExhausted == {i \in DOMAIN opened_files : ~opened_files[i].eof}

\* the non-exhausted runs whose front record is a global minimum
MinRuns ==
    {i \in NonExhausted :
        \A j \in NonExhausted : cmp_(record_list[i], record_list[j]) <= 0}

\* C18: after beginRead and after every read, heap[0] is a non-exhausted
\* run whose front record is less than or equal to the front record of
\* every other non-exhausted run, and heap[0] is the dummy -1 exactly when
\* every run is exhausted.
C18_WinnerIsGlobalMinimum ==
    (phase = "reading" /\ Len(filenames_) >= 1) =>
        IF NonExhausted = {} THEN heap[0] = -1
        ELSE heap[0] + 1 \in MinRuns

\* four runs with different front records, one of them exhausted, the
\* winner not being the first run
C18_Witness ==
    /\ phase = "reading"
    /\ Len(filenames_) = 4
    /\ Cardinality(NonExhausted) = 3
    /\ \E i, j \in NonExhausted : record_list[i] # record_list[j]
    /\ heap[0] > 0
    /\ heap[0] + 1 \in MinRuns

\* C19: whenever two or more non-exhausted runs have front records that
\* compare equal and are the global minimum, heap[0] is the one with the
\* smallest run index, after beginRead and after every read.
C19_LeftmostWinsTies ==
    (phase = "reading" /\ Cardinality(MinRuns) >= 2) =>
        \A i \in MinRuns : heap[0] + 1 <= i

\* the i-th block of NUM_RECORD_PER_FILE records of the input
Block(i) ==
    SubSeq(input, (i - 1) * NUM_RECORD_PER_FILE + 1,
           IF i * NUM_RECORD_PER_FILE < Len(input)
           THEN i * NUM_RECORD_PER_FILE ELSE Len(input))

\* C20: after N writes and endWrite there are ceil(N / NUM_RECORD_PER_FILE)
\* run files and no other file; the i-th holds exactly the records of the
\* i-th block of the input (the last one the remaining 1 ..
\* NUM_RECORD_PER_FILE records), sorted under the comparator, and nothing
\* more.
C20_RunGeneration ==
    phase = "ended" =>
        /\ Len(filenames_) * NUM_RECORD_PER_FILE >= Len(input)
        /\ (Len(filenames_) - 1) * NUM_RECORD_PER_FILE < Len(input)
               \/ (Len(input) = 0 /\ Len(filenames_) = 0)
        /\ Len(disk) = Len(filenames_)
        /\ \A i \in DOMAIN filenames_ :
              LET file == disk[filenames_[i]] IN
              /\ file.exists
              /\ Len(file.bytes) = Len(Block(i))
              /\ Len(file.bytes) \in 1..NUM_RECORD_PER_FILE
              /\ SameMultiset(file.bytes, Block(i))
              /\ NonDecreasing(file.bytes)
        /\ \A i, j \in DOMAIN filenames_ : i # j => filenames_[i] # filenames_[j]

\* N = 3 * NUM_RECORD_PER_FILE records, written out of order within the
\* last block, in files of two records
C20_Witness ==
    /\ phase = "ended"
    /\ NUM_RECORD_PER_FILE = 2
    /\ Len(input) = 6
    /\ Len(filenames_) = 3
    /\ cmp_(input[5], input[6]) > 0
    /\ disk[filenames_[3]].bytes = <<input[6], input[5]>>

\* C11: whenever mkstemp, ftruncate, mmap, open or read has failed during
\* write, endWrite, beginRead or read, the operation has reported a
\* UnixError to the caller and execution has stopped there.
C11_SyscallFailureReported ==
    syscall_failed # "none" => (err = "UnixError" /\ phase \in {"thrown", "destroyed"})

\* C10: with no record written, endWrite leaves zero runs and no file, and
\* beginRead completes without undefined behaviour (no undefined tree
\* height, no out-of-range tree index).
C10_EmptyInputValid ==
    (Len(input) = 0 /\ phase \in {"ended", "reading", "crashed"}) =>
        /\ filenames_ = <<>>
        /\ disk = <<>>
        /\ ~ub
        /\ phase # "crashed"

(***************************************************************************)
(* The planner: conditions, plans and the catalog.                         *)
(***************************************************************************)
NoCol == [tab_name |-> "", col_name |-> ""]

TabCol(t, c) == [tab_name |-> t, col_name |-> c]

\* a Condition; id is its position in the WHERE clause as written (history)
ValCond(i, t, c, o) ==
    [id |-> i, lhs_col |-> TabCol(t, c), op |-> o, is_rhs_val |-> TRUE,
     rhs_col |-> NoCol]

ColCond(i, t, c, o, t2, c2) ==
    [id |-> i, lhs_col |-> TabCol(t, c), op |-> o, is_rhs_val |-> FALSE,
     rhs_col |-> TabCol(t2, c2)]

NoPlan == [kind |-> "None"]

ScanPlan(tag, tab, cs, cols) ==
    [kind |-> "Scan", tag |-> tag, tab_name_ |-> tab, conds_ |-> cs,
     index_col_names_ |-> cols]

JoinPlan(tag, l, r, cs) ==
    [kind |-> "Join", tag |-> tag, left_ |-> l, right_ |-> r, conds_ |-> cs]

DMLPlan(tag, child, tab, cs) ==
    [kind |-> "DML", tag |-> tag, subplan_ |-> child, tab_name_ |-> tab,
     conds_ |-> cs]

(***************************************************************************)
(* get_index_cols(tab_name, curr_conds, index_col_names)                   *)
(***************************************************************************)
\* eq_index_map / neq_index_map (lines 44-50): the 1-based position of the
\* last condition on col_name with, resp. without, OP_EQ; 0 when absent
RECURSIVE LastCond(_, _, _, _)
LastCond(cs, col, eq, i) ==
    IF i = 0 THEN 0
    ELSE IF cs[i].lhs_col.col_name = col /\ ((cs[i].op = "=") = eq) THEN i
    ELSE LastCond(cs, col, eq, i - 1)

eq_index_map(cs, col) == LastCond(cs, col, TRUE, Len(cs))

neq_index_map(cs, col) == LastCond(cs, col, FALSE, Len(cs))

\* the inner loop (lines 57-66): len for one index, from key column j on
RECURSIVE LeftMatchLen(_, _, _)
LeftMatchLen(cs, cols, j) ==
    IF j > Len(cols) THEN 0
    ELSE IF eq_index_map(cs, cols[j]) # 0 THEN 1 + LeftMatchLen(cs, cols, j + 1)
    ELSE IF neq_index_map(cs, cols[j]) # 0 THEN 1
    ELSE 0

\* a comparison that also lets a later index of equal length win
BetterOrEqualMatch(len, max_left_match_len) == len >= max_left_match_len

\* line 67: does index i replace the best so far
BetterMatch(len, max_left_match_len) == len > max_left_match_len

\* the outer loop (lines 53-71): <<max_left_match_index, max_left_match_len>>
\* from index i on, with 0 for the code's -1
RECURSIVE MaxLeftMatch(_, _, _, _, _)
MaxLeftMatch(cs, indexes, i, best, bestLen) ==
    IF i > Len(indexes) THEN <<best, bestLen>>
    ELSE LET len == LeftMatchLen(cs, indexes[i], 1) IN
         IF BetterMatch(len, bestLen)
         THEN MaxLeftMatch(cs, indexes, i + 1, i, len)
         ELSE MaxLeftMatch(cs, indexes, i + 1, best, bestLen)

\* a matching that takes the range condition of a column before its '='
RangeFirstMatchIndex(cs, cols, len) ==
    [i \in 1..len |->
        IF neq_index_map(cs, cols[i]) # 0 THEN neq_index_map(cs, cols[i])
        ELSE eq_index_map(cs, cols[i])]

\* lines 81-90: the positions in curr_conds of the matched conditions
left_match_index(cs, cols, len) ==
    [i \in 1..len |->
        IF eq_index_map(cs, cols[i]) # 0 THEN eq_index_map(cs, cols[i])
        ELSE neq_index_map(cs, cols[i])]

\* lines 102-106: the conditions at positions i.. that were not matched
RECURSIVE Unmatched(_, _, _)
Unmatched(cs, match, i) ==
    IF i > Len(cs) THEN <<>>
    ELSE (IF i \in Range(match) THEN <<>> ELSE <<cs[i]>>)
         \o Unmatched(cs, match, i + 1)

\* lines 92-108: the matched conditions, then the others in their order
ReorderConds(cs, match) ==
    [i \in 1..Len(match) |-> cs[match[i]]] \o Unmatched(cs, match, 1)

\* only the columns of the chosen index that were matched
MatchedPrefix(indexes, i, len) == SubSeq(indexes[i], 1, len)

\* lines 75-78: every column of the chosen index is pushed
IndexColNames(indexes, i, len) == indexes[i]

get_index_cols(tab_name, curr_conds) ==
    LET indexes == db_[tab_name].indexes
        m == MaxLeftMatch(curr_conds, indexes, 1, 0, 0) IN
    IF m[1] = 0
    THEN [found |-> FALSE, conds |-> curr_conds, index_col_names |-> <<>>,
          index_no |-> 0, len |-> 0]
    ELSE [found |-> TRUE,
          conds |-> ReorderConds(curr_conds,
                       left_match_index(curr_conds, indexes[m[1]], m[2])),
          index_col_names |-> IndexColNames(indexes, m[1], m[2]),
          index_no |-> m[1], len |-> m[2]]

(***************************************************************************)
(* pop_conds(conds, tab_names)                                             *)
(***************************************************************************)
\* line 151: is the condition taken for the scan of table tab
IsSolved(c, tab) ==
    \/ (tab = c.lhs_col.tab_name /\ c.is_rhs_val)
    \/ c.lhs_col.tab_name = c.rhs_col.tab_name

\* <<solved_conds, the conditions left in conds>>
pop_conds(cs, tab) ==
    <<SelectSeq(cs, LAMBDA c : IsSolved(c, tab)),
      SelectSeq(cs, LAMBDA c : ~IsSolved(c, tab))>>

(***************************************************************************)
(* push_conds(cond, plan)                                                  *)
(***************************************************************************)
\* the logical negation of a comparator
NegateOp(o) ==
    CASE o = "=" -> "<>"
      [] o = "<>" -> "="
      [] o = "<" -> ">="
      [] o = ">" -> "<="
      [] o = "<=" -> ">"
      [] o = ">=" -> "<"

\* lines 192-194, 355-357: std::map<CompOp, CompOp> swap_op
swap_op(o) ==
    CASE o = "=" -> "="
      [] o = "<>" -> "<>"
      [] o = "<" -> ">"
      [] o = ">" -> "<"
      [] o = "<=" -> ">="
      [] o = ">=" -> "<="

\* std::swap(cond->lhs_col, cond->rhs_col)
SwapCols(c) == [c EXCEPT !.lhs_col = c.rhs_col, !.rhs_col = c.lhs_col]

\* a reversal that inverts the comparator and leaves the sides in place
ReversedOpOnly(c) == [c EXCEPT !.op = swap_op(c.op)]

\* lines 190-197: the condition as attached when the left child matched its
\* right side
Reversed(c) == [SwapCols(c) EXCEPT !.op = swap_op(c.op)]

\* [res |-> the int returned, plan |-> the tree after the call]
RECURSIVE push_conds(_, _)
push_conds(cond, plan) ==
    IF plan.kind = "Scan"
    THEN [res |-> IF plan.tab_name_ = cond.lhs_col.tab_name THEN 1
                  ELSE IF plan.tab_name_ = cond.rhs_col.tab_name THEN 2
                  ELSE 0,
          plan |-> plan]
    ELSE IF plan.kind = "Join"
    THEN LET l == push_conds(cond, plan.left_) IN
         IF l.res = 3 THEN [res |-> 3, plan |-> [plan EXCEPT !.left_ = l.plan]]
         ELSE LET r == push_conds(cond, plan.right_) IN
              IF r.res = 3
              THEN [res |-> 3, plan |-> [plan EXCEPT !.right_ = r.plan]]
              ELSE IF l.res = 0 \/ r.res = 0
              THEN [res |-> l.res + r.res, plan |-> plan]
              ELSE [res |-> 3,
                    plan |-> [plan EXCEPT !.conds_ =
                                Append(@, IF l.res = 2 THEN Reversed(cond) ELSE cond)]]
    ELSE [res |-> 0, plan |-> plan]

(***************************************************************************)
(* pop_scan(scantbl, table, joined_tables, plans)                          *)
(***************************************************************************)
\* the least i with plans[i] scanning table, 0 when there is none (nullptr)
RECURSIVE ScanPos(_, _, _)
ScanPos(plans, table, i) ==
    IF i > Len(plans) THEN 0
    ELSE IF plans[i].tab_name_ = table THEN i
    ELSE ScanPos(plans, table, i + 1)

\* a pop_scan that does not mark the table as scanned
pop_scan_unmarked(stbl, table, joined, plans) ==
    LET i == ScanPos(plans, table, 1) IN
    IF i = 0 THEN [plan |-> NoPlan, scantbl |-> stbl, joined_tables |-> joined]
    ELSE [plan |-> plans[i], scantbl |-> stbl,
          joined_tables |-> Append(joined, table)]

\* [plan, scantbl, joined_tables] after the call
pop_scan(stbl, table, joined, plans) ==
    LET i == ScanPos(plans, table, 1) IN
    IF i = 0 THEN [plan |-> NoPlan, scantbl |-> stbl, joined_tables |-> joined]
    ELSE [plan |-> plans[i], scantbl |-> [stbl EXCEPT ![i] = 1],
          joined_tables |-> Append(joined, table)]

(***************************************************************************)
(* make_one_rel(query)                                                     *)
(***************************************************************************)
\* lines 255-263: the ScanPlan of one table over its conditions
MakeScan(tab, curr_conds) ==
    LET r == get_index_cols(tab, curr_conds) IN
    IF ~r.found
    THEN ScanPlan("T_SeqScan", tab, curr_conds, <<>>)
    ELSE ScanPlan("T_IndexScan", tab, r.conds, r.index_col_names)

\* the loop of lines 251-264 from table i on:
\* [scans |-> the ScanPlans, conds |-> what is left of query->conds]
RECURSIVE ScanLoop(_, _, _)
ScanLoop(tabs, cs, i) ==
    IF i > Len(tabs) THEN [scans |-> <<>>, conds |-> cs]
    ELSE LET p == pop_conds(cs, tabs[i])
             rest == ScanLoop(tabs, p[2], i + 1)
         IN  [scans |-> <<MakeScan(tabs[i], p[1])>> \o rest.scans,
              conds |-> rest.conds]

BuildScans ==
    /\ pc = "start"
    /\ parse = "Select"
    /\ LET r == ScanLoop(tables, conds, 1) IN
         /\ table_scan_executors' = r.scans
         /\ conds' = r.conds
    /\ pc' = "scanned"
    /\ UNCHANGED <<parse, query, tables, db_, enable_nestedloop_join,
                   enable_sortmerge_join, jconds, scantbl, joined_tables,
                   table_join_executors, plannerRoot, perr>>
    /\ UNCHANGED <<emsVars, lruVars>>

\* lines 266-269: a single table needs no join
ReturnSingle ==
    /\ pc = "scanned"
    /\ Len(tables) = 1
    /\ table_join_executors' = table_scan_executors[1]
    /\ pc' = "done"
    /\ UNCHANGED <<parse, query, tables, conds, db_, enable_nestedloop_join,
                   enable_sortmerge_join, table_scan_executors, jconds, scantbl,
                   joined_tables, plannerRoot, perr>>
    /\ UNCHANGED <<emsVars, lruVars>>

\* lines 291-296: are the two scans in the reverse of the FROM order
NeedsFromSwap(left, right, scans) == left = scans[2] /\ right = scans[1]

\* lines 300-324: the first JoinPlan, or NoPlan when no join executor is
\* enabled; it is the condition after the FROM-order swap
FirstJoinPlan(left, right, it) ==
    IF enable_nestedloop_join
    THEN JoinPlan("T_NestLoop", left, right, <<it>>)
    ELSE IF enable_sortmerge_join
    THEN LET li == get_index_cols(it.lhs_col.tab_name, <<it>>)
             \* *it has its sides swapped, join_conds (a copy) has not
             ri == get_index_cols(it.rhs_col.tab_name, li.conds)
         IN  IF li.found /\ ri.found
             THEN JoinPlan("T_SortMergeWithIndex",
                           ScanPlan("T_IndexScan", it.lhs_col.tab_name, <<>>,
                                    li.index_col_names),
                           ScanPlan("T_IndexScan", it.rhs_col.tab_name, <<>>,
                                    ri.index_col_names),
                           ri.conds)
             ELSE JoinPlan("T_SortMerge", left, right, ri.conds)
    ELSE NoPlan

\* lines 271-329: the first join condition builds the first join
FirstJoin ==
    /\ pc = "scanned"
    /\ Len(tables) > 1
    /\ Len(conds) >= 1
    /\ LET n  == Len(tables)
           c0 == conds[1]
           l  == pop_scan([i \in 1..n |-> -1], c0.lhs_col.tab_name,
                          [i \in 1..n |-> ""], table_scan_executors)
           r  == pop_scan(l.scantbl, c0.rhs_col.tab_name, l.joined_tables,
                          table_scan_executors)
           sw == NeedsFromSwap(l.plan, r.plan, table_scan_executors)
           left  == IF sw THEN r.plan ELSE l.plan
           right == IF sw THEN l.plan ELSE r.plan
           it == IF sw THEN SwapCols(c0) ELSE c0
           j  == FirstJoinPlan(left, right, it)
       IN  /\ conds' = <<>>
           /\ scantbl' = r.scantbl
           /\ joined_tables' = r.joined_tables
           /\ IF j = NoPlan
              THEN /\ perr' = "RMDBError"
                   /\ pc' = "error"
                   /\ jconds' = conds
                   /\ UNCHANGED table_join_executors
              ELSE /\ table_join_executors' = j
                   /\ jconds' = Tail(conds)
                   /\ pc' = "joining"
                   /\ UNCHANGED perr
    /\ UNCHANGED <<parse, query, tables, db_, enable_nestedloop_join,
                   enable_sortmerge_join, table_scan_executors, plannerRoot>>
    /\ UNCHANGED <<emsVars, lruVars>>

\* lines 271-278, 370-373: no join condition, start from the first scan
NoJoinConds ==
    /\ pc = "scanned"
    /\ Len(tables) > 1
    /\ Len(conds) = 0
    /\ jconds' = <<>>
    /\ scantbl' = [i \in 1..Len(tables) |-> IF i = 1 THEN 1 ELSE -1]
    /\ table_join_executors' = table_scan_executors[1]
    /\ pc' = "joining"
    /\ UNCHANGED <<parse, query, tables, conds, db_, enable_nestedloop_join,
                   enable_sortmerge_join, table_scan_executors, joined_tables,
                   plannerRoot, perr>>
    /\ UNCHANGED <<emsVars, lruVars>>

InSeq(s, v) == \E i \in DOMAIN s : s[i] = v

\* lines 332-369: one iteration of the loop over the remaining conditions
NextJoin ==
    /\ pc = "joining"
    /\ Len(jconds) >= 1
    /\ LET it == jconds[1]
           lfresh == ~InSeq(joined_tables, it.lhs_col.tab_name)
           l == IF lfresh
                THEN pop_scan(scantbl, it.lhs_col.tab_name, joined_tables,
                              table_scan_executors)
                ELSE [plan |-> NoPlan, scantbl |-> scantbl,
                      joined_tables |-> joined_tables]
           rfresh == ~InSeq(l.joined_tables, it.rhs_col.tab_name)
           r == IF rfresh
                THEN pop_scan(l.scantbl, it.rhs_col.tab_name, l.joined_tables,
                              table_scan_executors)
                ELSE [plan |-> NoPlan, scantbl |-> l.scantbl,
                      joined_tables |-> l.joined_tables]
           isneedreverse == rfresh
       IN  /\ scantbl' = r.scantbl
           /\ joined_tables' = r.joined_tables
           /\ table_join_executors' =
                IF l.plan # NoPlan /\ r.plan # NoPlan
                THEN JoinPlan("T_NestLoop",
                              JoinPlan("T_NestLoop", l.plan, r.plan, <<it>>),
                              table_join_executors, <<>>)
                ELSE IF l.plan # NoPlan \/ r.plan # NoPlan
                THEN IF isneedreverse
                     THEN JoinPlan("T_NestLoop", r.plan, table_join_executors,
                                   <<Reversed(it)>>)
                     ELSE JoinPlan("T_NestLoop", l.plan, table_join_executors,
                                   <<it>>)
                ELSE push_conds(it, table_join_executors).plan
    /\ jconds' = Tail(jconds)
    /\ UNCHANGED <<parse, query, tables, conds, db_, enable_nestedloop_join,
                   enable_sortmerge_join, table_scan_executors, plannerRoot,
                   perr, pc>>
    /\ UNCHANGED <<emsVars, lruVars>>

\* the loop of lines 376-381 from table i on
RECURSIVE JoinRest(_, _, _, _)
JoinRest(scans, stbl, tree, i) ==
    IF i > Len(scans) THEN tree
    ELSE IF stbl[i] = -1
    THEN JoinRest(scans, stbl, JoinPlan("T_NestLoop", scans[i], tree, <<>>), i + 1)
    ELSE JoinRest(scans, stbl, tree, i + 1)

\* lines 375-383: the tables no condition brought in, then return
JoinRemaining ==
    /\ pc = "joining"
    /\ Len(jconds) = 0
    /\ table_join_executors' =
         JoinRest(table_scan_executors, scantbl, table_join_executors, 1)
    /\ pc' = "done"
    /\ UNCHANGED <<parse, query, tables, conds, db_, enable_nestedloop_join,
                   enable_sortmerge_join, table_scan_executors, jconds, scantbl,
                   joined_tables, plannerRoot, perr>>
    /\ UNCHANGED <<emsVars, lruVars>>

(***************************************************************************)
(* do_planner(query): delete and update                                    *)
(***************************************************************************)
\* lines 474-513: one ScanPlan on the target table under a DMLPlan
PlanDML ==
    /\ pc = "start"
    /\ parse \in {"Delete", "Update"}
    /\ LET tab == tables[1]
           r == get_index_cols(tab, conds)
       IN  /\ conds' = r.conds
           /\ plannerRoot' =
                DMLPlan(IF parse = "Delete" THEN "T_Delete" ELSE "T_Update",
                        MakeScan(tab, conds), tab, r.conds)
    /\ pc' = "done"
    /\ UNCHANGED <<parse, query, tables, db_, enable_nestedloop_join,
                   enable_sortmerge_join, table_scan_executors, jconds, scantbl,
                   joined_tables, table_join_executors, perr>>
    /\ UNCHANGED <<emsVars, lruVars>>

(***************************************************************************)
(* physical_optimization, generate_select_plan and the other branches of   *)
(* do_planner.                                                             *)
(***************************************************************************)
SortPlan(child, sel_col) ==
    [kind |-> "Sort", tag |-> "T_Sort", subplan_ |-> child, sel_col_ |-> sel_col]

AggregationPlan(child) ==
    [kind |-> "Aggregation", tag |-> "T_Aggregation", subplan_ |-> child]

ProjectionPlan(child) ==
    [kind |-> "Projection", tag |-> "T_Projection", subplan_ |-> child]

DDLPlan(tag, tab) == [kind |-> "DDL", tag |-> tag, tab_name_ |-> tab]

\* lines 394-399: the columns of the FROM tables, table after table
RECURSIVE all_cols(_)
all_cols(tabs) ==
    IF tabs = <<>> THEN <<>>
    ELSE [i \in DOMAIN db_[Head(tabs)].cols |->
              TabCol(Head(tabs), db_[Head(tabs)].cols[i])]
         \o all_cols(Tail(tabs))

\* lines 400-404: sel_col after the loop, assigned at every column of that
\* name and left default-constructed when there is none
RECURSIVE sel_col(_, _, _)
sel_col(cols, name, sel) ==
    IF cols = <<>> THEN sel
    ELSE sel_col(Tail(cols), name,
                 IF Head(cols).col_name = name THEN Head(cols) ELSE sel)

generate_sort_plan(plan) ==
    IF ~query.has_sort THEN plan
    ELSE SortPlan(plan, sel_col(all_cols(tables), query.order_col, NoCol))

generate_aggregation_group_plan(plan) ==
    IF ~query.has_aggr /\ ~query.has_group THEN plan
    ELSE AggregationPlan(plan)

\* the two wrappers applied in the other order
SortThenAggregate(plan) ==
    generate_aggregation_group_plan(generate_sort_plan(plan))

\* lines 233-239: what physical_optimization does to the plan of make_one_rel
physical_optimization(plan) ==
    generate_sort_plan(generate_aggregation_group_plan(plan))

\* generate_select_plan and the select branch of do_planner, from the return
\* of make_one_rel on
FinishSelect ==
    /\ pc = "done"
    /\ parse = "Select"
    /\ plannerRoot' =
          DMLPlan("T_select",
                  ProjectionPlan(physical_optimization(table_join_executors)),
                  "", <<>>)
    /\ pc' = "planned"
    /\ UNCHANGED <<parse, query, tables, conds, db_, enable_nestedloop_join,
                   enable_sortmerge_join, table_scan_executors, jconds, scantbl,
                   joined_tables, table_join_executors, perr>>
    /\ UNCHANGED <<emsVars, lruVars>>

\* the statements whose plan is a DDLPlan
DdlRoots == {"CreateTable", "DropTable", "CreateIndex", "DropIndex", "ShowIndex"}

DdlTag(root) ==
    CASE root = "CreateTable" -> "T_CreateTable"
      [] root = "DropTable" -> "T_DropTable"
      [] root = "CreateIndex" -> "T_CreateIndex"
      [] root = "DropIndex" -> "T_DropIndex"
      [] root = "ShowIndex" -> "T_ShowIndex"

\* lines 444-472 and 528-530: the DDL statements, insert, and any other root
PlanOther ==
    /\ pc = "start"
    /\ parse \notin {"Select", "Delete", "Update"}
    /\ IF parse \in DdlRoots
       THEN /\ plannerRoot' = DDLPlan(DdlTag(parse), tables[1])
            /\ pc' = "planned"
            /\ perr' = perr
       ELSE IF parse = "Insert"
       THEN /\ plannerRoot' = DMLPlan("T_Insert", NoPlan, tables[1], <<>>)
            /\ pc' = "planned"
            /\ perr' = perr
       ELSE /\ perr' = "InternalError"
            /\ pc' = "error"
            /\ plannerRoot' = plannerRoot
    /\ UNCHANGED <<parse, query, tables, conds, db_, enable_nestedloop_join,
                   enable_sortmerge_join, table_scan_executors, jconds, scantbl,
                   joined_tables, table_join_executors>>
    /\ UNCHANGED <<emsVars, lruVars>>

(***************************************************************************)
(* The planner's inputs.                                                   *)
(***************************************************************************)
AllTables == <<"a", "b", "c", "d">>

Cols == {"x", "y"}

InputOps == {"=", "<"}

\* the catalog the select statements are planned against
Catalog ==
    [t \in Range(AllTables) |->
        [indexes |->
            CASE t = "a" -> << <<"x">> >>
              [] t = "b" -> << <<"y">>, <<"x", "y">>, <<"y", "x">> >>
              [] t = "c" -> <<>>
              [] t = "d" -> << <<"x", "y">>, <<"x">> >>,
         cols |->
            CASE t = "a" -> <<"x", "y", "k">>
              [] t = "d" -> <<"x", "y", "q">>
              [] OTHER -> <<"x", "y">>]]

\* the conditions a validated query over the tables tabs may hold
CondUniverse(tabs) ==
    {ValCond(0, t, c, o) : t \in tabs, c \in Cols, o \in InputOps}
    \cup {ColCond(0, t[1], c[1], o, t[2], c[2]) :
            t \in tabs \X tabs, c \in Cols \X Cols, o \in InputOps}

\* the WHERE clause f with each condition numbered by its position
Numbered(f) == [i \in DOMAIN f |-> [f[i] EXCEPT !.id = i]]

PlanFresh ==
    /\ table_scan_executors = <<>>
    /\ jconds = <<>>
    /\ scantbl = <<>>
    /\ joined_tables = <<>>
    /\ table_join_executors = NoPlan
    /\ plannerRoot = NoPlan
    /\ perr = "none"

\* a query with no ORDER BY, aggregate or GROUP BY
PlainQuery ==
    [has_sort |-> FALSE, order_col |-> "", has_aggr |-> FALSE,
     has_group |-> FALSE]

\* a select over the first n tables of AllTables
SelectInit ==
    /\ parse = "Select"
    /\ query = PlainQuery
    /\ \E n \in 1..Len(AllTables) :
         /\ tables = SubSeq(AllTables, 1, n)
         /\ \E k \in 0..MaxConds :
              \E f \in [1..k -> CondUniverse(Range(SubSeq(AllTables, 1, n)))] :
                 conds = Numbered(f)
    /\ db_ = Catalog
    /\ enable_nestedloop_join \in BOOLEAN
    /\ enable_sortmerge_join \in BOOLEAN
    /\ PlanFresh
    /\ pc = "start"

\* the join conditions between two different tables of tabs, on column x
JoinCondUniverse(tabs) ==
    {ColCond(0, t[1], "x", "<", t[2], "x") :
        t \in {u \in tabs \X tabs : u[1] # u[2]}}

\* a select over the first n tables of AllTables whose WHERE clause holds
\* join conditions only, enough of them to reach a join below the root
JoinSelectInit ==
    /\ parse = "Select"
    /\ query = PlainQuery
    /\ \E n \in 1..Len(AllTables) :
         /\ tables = SubSeq(AllTables, 1, n)
         /\ \E k \in 0..MaxJoinConds :
              \E f \in [1..k -> JoinCondUniverse(Range(SubSeq(AllTables, 1, n)))] :
                 conds = Numbered(f)
    /\ db_ = Catalog
    /\ enable_nestedloop_join \in BOOLEAN
    /\ enable_sortmerge_join \in BOOLEAN
    /\ PlanFresh
    /\ pc = "start"

AllOps == {"=", "<>", "<", ">", "<=", ">="}

\* the join conditions between two different tables of tabs, on column x,
\* with any comparator
AnyOpJoinConds(tabs) ==
    {ColCond(0, t[1], "x", o, t[2], "x") :
        t \in {u \in tabs \X tabs : u[1] # u[2]}, o \in AllOps}

\* a select under nestedloop over the first n tables of AllTables whose WHERE
\* clause holds join conditions only, the last one with any comparator
PushSelectInit ==
    /\ parse = "Select"
    /\ query = PlainQuery
    /\ \E n \in 1..Len(AllTables) :
         /\ tables = SubSeq(AllTables, 1, n)
         /\ \E k \in 0..MaxPushConds :
              IF k = 0 THEN conds = <<>>
              ELSE \E f \in [1..(k - 1) ->
                                JoinCondUniverse(Range(SubSeq(AllTables, 1, n)))] :
                      \E c \in AnyOpJoinConds(Range(SubSeq(AllTables, 1, n))) :
                         conds = Numbered(Append(f, c))
    /\ db_ = Catalog
    /\ enable_nestedloop_join = TRUE
    /\ enable_sortmerge_join = FALSE
    /\ PlanFresh
    /\ pc = "start"

\* the planner before any query: the state of the other specifications
PlanIdle ==
    /\ parse = "None"
    /\ query = PlainQuery
    /\ tables = <<>>
    /\ conds = <<>>
    /\ db_ = Catalog
    /\ enable_nestedloop_join = TRUE
    /\ enable_sortmerge_join = FALSE
    /\ PlanFresh
    /\ pc = "idle"

\* the column lists an index may have: distinct columns, in any order
IndexKeys ==
    {k \in UNION {[1..n -> Cols] : n \in 1..Cardinality(Cols)} :
        \A i, j \in DOMAIN k : i # j => k[i] # k[j]}

\* a delete or update of table t under any indexes and conditions
DmlInit ==
    /\ parse \in {"Delete", "Update"}
    /\ query = PlainQuery
    /\ tables = <<"t">>
    /\ \E k \in 0..MaxDmlConds :
         \E f \in [1..k -> {ValCond(0, "t", c, o) : c \in Cols, o \in InputOps}] :
            conds = Numbered(f)
    /\ \E m \in 0..MaxIndexes :
         \E ix \in [1..m -> IndexKeys] :
            db_ = [t \in {"t"} |-> [indexes |-> ix, cols |-> <<"x", "y">>]]
    /\ enable_nestedloop_join = TRUE
    /\ enable_sortmerge_join = FALSE
    /\ PlanFresh
    /\ pc = "start"

\* a delete or update of table t under a few indexes and any conditions
IndexColsInit ==
    /\ parse \in {"Delete", "Update"}
    /\ query = PlainQuery
    /\ tables = <<"t">>
    /\ \E k \in 0..MaxKeyConds :
         \E f \in [1..k -> {ValCond(0, "t", c, o) : c \in Cols, o \in InputOps}] :
            conds = Numbered(f)
    /\ \E m \in 0..MaxKeyIndexes :
         \E ix \in [1..m -> IndexKeys] :
            db_ = [t \in {"t"} |-> [indexes |-> ix, cols |-> <<"x", "y">>]]
    /\ enable_nestedloop_join = TRUE
    /\ enable_sortmerge_join = FALSE
    /\ PlanFresh
    /\ pc = "start"

\* the ORDER BY / aggregate / GROUP BY parts a select may have; k is a
\* column of a only, q of d only, x of every table
OrderCols == {"x", "k", "q"}

Queries ==
    {[has_sort |-> FALSE, order_col |-> "", has_aggr |-> a, has_group |-> g] :
        a \in BOOLEAN, g \in BOOLEAN}
    \cup {[has_sort |-> TRUE, order_col |-> c, has_aggr |-> a, has_group |-> g] :
            c \in OrderCols, a \in BOOLEAN, g \in BOOLEAN}

\* any statement handed to do_planner
DoPlannerInit ==
    \/ /\ parse = "Select"
       /\ query \in Queries
       /\ \E n \in 1..Len(AllTables) :
            /\ tables = SubSeq(AllTables, 1, n)
            /\ \E k \in 0..MaxWrapConds :
                 \E f \in [1..k -> JoinCondUniverse(Range(SubSeq(AllTables, 1, n)))] :
                    conds = Numbered(f)
       /\ db_ = Catalog
       /\ enable_nestedloop_join \in BOOLEAN
       /\ enable_sortmerge_join \in BOOLEAN
       /\ PlanFresh
       /\ pc = "start"
    \/ /\ parse \in {"Delete", "Update"}
       /\ query = PlainQuery
       /\ \E t \in Range(AllTables) :
            /\ tables = <<t>>
            /\ \E k \in 0..MaxWrapConds :
                 \E f \in [1..k -> {ValCond(0, t, c, o) :
                                        c \in Cols, o \in InputOps}] :
                    conds = Numbered(f)
       /\ db_ = Catalog
       /\ enable_nestedloop_join = TRUE
       /\ enable_sortmerge_join = FALSE
       /\ PlanFresh
       /\ pc = "start"
    \/ /\ parse \in DdlRoots \cup {"Insert", "Other"}
       /\ query = PlainQuery
       /\ tables \in {<<t>> : t \in Range(AllTables)}
       /\ conds = <<>>
       /\ db_ = Catalog
       /\ enable_nestedloop_join = TRUE
       /\ enable_sortmerge_join = FALSE
       /\ PlanFresh
       /\ pc = "start"

(***************************************************************************)
(* LRUReplacer.  Every method holds latch_ for its whole body, so each     *)
(* call is one step, whichever thread makes it.                            *)
(***************************************************************************)
max_size_ == MaxFrames

Frames == 0..(max_size_ - 1)

NoVictim == [ok |-> FALSE, frame_id |-> -1]

EmptyHash == [f \in {} |-> 0]

LRUInit ==
    /\ LRUlist_ = <<>>
    /\ LRUhash_ = EmptyHash
    /\ nodes = 0
    /\ victim_ret = NoVictim
    /\ lru_phase = "run"
    /\ lru_ub = FALSE
    /\ evictable = <<>>
    /\ pinned = {}

\* the replacer before construction: the state of the other specifications
LRUIdle ==
    /\ LRUlist_ = <<>>
    /\ LRUhash_ = EmptyHash
    /\ nodes = 0
    /\ victim_ret = NoVictim
    /\ lru_phase = "idle"
    /\ lru_ub = FALSE
    /\ evictable = <<>>
    /\ pinned = {}

\* LRUlist_.begin(): the first node, or end()
Begin(list) == IF list = <<>> THEN 0 ELSE list[1].node

\* is the iterator it the iterator of a node of the list
Live(list, it) == \E i \in DOMAIN list : list[i].node = it

\* LRUlist_.erase(it) for a live iterator
ListErase(list, it) == LET Keep(n) == n.node # it IN SelectSeq(list, Keep)

HashErase(h, f) == [g \in DOMAIN h \ {f} |-> h[g]]

HashPut(h, f, it) == [g \in DOMAIN h \cup {f} |-> IF g = f THEN it ELSE h[g]]

RemoveFrame(seq, f) == LET Keep(g) == g # f IN SelectSeq(seq, Keep)

\* Size()
Size == Len(LRUlist_)

\* victim(&frame_id)
Victim ==
    /\ UNCHANGED <<emsVars, planVars>>
    /\ lru_phase = "run"
    /\ IF LRUlist_ = <<>>
       THEN \* lines 32-35: the out parameter is not written
            /\ victim_ret' = NoVictim
            /\ UNCHANGED <<LRUlist_, LRUhash_, lru_phase, lru_ub, evictable>>
       ELSE LET f == LRUlist_[Len(LRUlist_)].frame IN
            /\ LRUlist_' = SubSeq(LRUlist_, 1, Len(LRUlist_) - 1)
            /\ evictable' = RemoveFrame(evictable, f)
            /\ IF f \in DOMAIN LRUhash_
               THEN /\ LRUhash_' = HashErase(LRUhash_, f)
                    /\ victim_ret' = [ok |-> TRUE, frame_id |-> f]
                    /\ UNCHANGED <<lru_phase, lru_ub>>
               ELSE \* line 38: find gives end() and erase(end()) is
                    \* undefined: the call dies there, or returns
                    /\ lru_ub' = TRUE
                    /\ LRUhash_' = LRUhash_
                    /\ \/ /\ lru_phase' = "crashed"
                          /\ victim_ret' = victim_ret
                       \/ /\ lru_phase' = lru_phase
                          /\ victim_ret' = [ok |-> TRUE, frame_id |-> f]
    /\ UNCHANGED <<nodes, pinned>>

\* pin(frame_id), frame_id in [0, max_size_)
Pin ==
    /\ UNCHANGED <<emsVars, planVars>>
    /\ lru_phase = "run"
    /\ \E f \in Frames :
         /\ pinned' = pinned \cup {f}
         /\ evictable' = RemoveFrame(evictable, f)
         /\ IF f \in DOMAIN LRUhash_
            THEN /\ LRUhash_' = HashErase(LRUhash_, f)
                 /\ IF Live(LRUlist_, LRUhash_[f])
                    THEN /\ LRUlist_' = ListErase(LRUlist_, LRUhash_[f])
                         /\ UNCHANGED <<lru_phase, lru_ub>>
                    ELSE \* line 53: erase of end() or of a node already
                         \* erased is undefined: the call dies there, or
                         \* goes on with the list as it was
                         /\ lru_ub' = TRUE
                         /\ LRUlist_' = LRUlist_
                         /\ lru_phase' \in {"crashed", "run"}
            ELSE UNCHANGED <<LRUlist_, LRUhash_, lru_phase, lru_ub>>
    /\ UNCHANGED <<nodes, victim_ret>>

\* unpin(frame_id), frame_id in [0, max_size_)
Unpin ==
    /\ UNCHANGED <<emsVars, planVars>>
    /\ lru_phase = "run"
    /\ \E f \in Frames :
         /\ pinned' = pinned \ {f}
         /\ evictable' = IF f \in Range(evictable) THEN evictable
                         ELSE Append(evictable, f)
         /\ IF f \in DOMAIN LRUhash_
            THEN \* lines 71-74: the list is left as it is
                 /\ LRUlist_' = LRUlist_
                 /\ nodes' = nodes
            ELSE \* lines 75-76
                 /\ nodes < MaxNodes
                 /\ LRUlist_' = <<[node |-> nodes + 1, frame |-> f]>> \o LRUlist_
                 /\ nodes' = nodes + 1
         \* line 83, reached on both branches
         /\ LRUhash_' = HashPut(LRUhash_, f, Begin(LRUlist_'))
    /\ UNCHANGED <<victim_ret, lru_phase, lru_ub>>

(***************************************************************************)
(* The specifications.                                                     *)
(***************************************************************************)
EMSNext == Write \/ WriteAfterEnd \/ EndWrite \/ BeginRead \/ Read \/ Destroy

EMSStart == EMSInit /\ PlanIdle /\ LRUIdle

SpecEMS == EMSStart /\ [][EMSNext]_vars

EMSFailNext ==
    Write \/ WriteAfterEnd \/ EndWrite \/ BeginRead \/ Read \/ Destroy
    \/ WriteFail \/ EndWriteFail \/ BeginReadFail \/ ReadFail

SpecEMSFail == EMSStart /\ [][EMSFailNext]_vars

PlannerNext ==
    BuildScans \/ ReturnSingle \/ FirstJoin \/ NoJoinConds \/ NextJoin
    \/ JoinRemaining

PlannerStart == SelectInit /\ EMSIdle /\ LRUIdle

SpecPlanner == PlannerStart /\ [][PlannerNext]_vars

JoinTreeStart == JoinSelectInit /\ EMSIdle /\ LRUIdle

SpecJoinTree == JoinTreeStart /\ [][PlannerNext]_vars

PushCondsStart == PushSelectInit /\ EMSIdle /\ LRUIdle

SpecPushConds == PushCondsStart /\ [][PlannerNext]_vars

DoPlannerNext ==
    BuildScans \/ ReturnSingle \/ FirstJoin \/ NoJoinConds \/ NextJoin
    \/ JoinRemaining \/ FinishSelect \/ PlanDML \/ PlanOther

DoPlannerStart == DoPlannerInit /\ EMSIdle /\ LRUIdle

SpecDoPlanner == DoPlannerStart /\ [][DoPlannerNext]_vars

LRUNext == Victim \/ Pin \/ Unpin

LRUStart == LRUInit /\ EMSIdle /\ PlanIdle

SpecLRU == LRUStart /\ [][LRUNext]_vars

DmlNext == PlanDML

DmlStart == DmlInit /\ EMSIdle /\ LRUIdle

SpecDml == DmlStart /\ [][DmlNext]_vars

IndexColsStart == IndexColsInit /\ EMSIdle /\ LRUIdle

SpecIndexCols == IndexColsStart /\ [][DmlNext]_vars

(***************************************************************************)
(* The planner: the properties.                                            *)
(***************************************************************************)
\* the tables scanned in a plan
RECURSIVE TablesOf(_)
TablesOf(plan) ==
    IF plan.kind = "Scan" THEN {plan.tab_name_}
    ELSE IF plan.kind = "Join" THEN TablesOf(plan.left_) \cup TablesOf(plan.right_)
    ELSE {}

\* the ScanPlans and the JoinPlans of a plan
RECURSIVE ScansOf(_)
ScansOf(plan) ==
    IF plan.kind = "Scan" THEN {plan}
    ELSE IF plan.kind = "Join" THEN ScansOf(plan.left_) \cup ScansOf(plan.right_)
    ELSE {}

RECURSIVE JoinsOf(_)
JoinsOf(plan) ==
    IF plan.kind = "Join"
    THEN {plan} \cup JoinsOf(plan.left_) \cup JoinsOf(plan.right_)
    ELSE {}

\* every ScanPlan the planner has emitted so far
EmittedScans ==
    Range(table_scan_executors) \cup ScansOf(table_join_executors)
    \cup (IF plannerRoot.kind = "DML" THEN ScansOf(plannerRoot.subplan_) ELSE {})

\* C3: in the join tree, at every stage and in the plan returned, every
\* condition on a JoinPlan has lhs_col.tab_name among the tables scanned in
\* the left subtree and rhs_col.tab_name among those of the right subtree.
C3_JoinCondsNormalized ==
    \A j \in JoinsOf(table_join_executors) :
        \A i \in DOMAIN j.conds_ :
            /\ j.conds_[i].lhs_col.tab_name \in TablesOf(j.left_)
            /\ j.conds_[i].rhs_col.tab_name \in TablesOf(j.right_)

\* a returned tree whose root joined a third table to the first join, and
\* whose first join then received a second condition from push_conds, which
\* descended to it and attached the condition with its sides reversed
C3_Witness ==
    /\ pc = "done"
    /\ table_join_executors.kind = "Join"
    /\ Len(table_join_executors.conds_) = 1
    /\ \E child \in {table_join_executors.left_, table_join_executors.right_} :
         /\ child.kind = "Join"
         /\ Len(child.conds_) = 2
         /\ child.conds_[2].op = ">"

\* C4: every condition on an emitted ScanPlan names only the scan's own
\* table: its lhs column, and its rhs column when the rhs is a column.
C4_ScanCondsTableLocal ==
    \A sc \in EmittedScans :
        \A i \in DOMAIN sc.conds_ :
            /\ sc.conds_[i].lhs_col.tab_name = sc.tab_name_
            /\ (~sc.conds_[i].is_rhs_val
                   => sc.conds_[i].rhs_col.tab_name = sc.tab_name_)

\* the leftmost-prefix score of an index key under a condition list: the
\* leading key columns that have an '=' condition, plus one if the next key
\* column has a condition that is not '='
EqBound(cs) == {cs[i].lhs_col.col_name : i \in {j \in DOMAIN cs : cs[j].op = "="}}

RangeBound(cs) == {cs[i].lhs_col.col_name : i \in {j \in DOMAIN cs : cs[j].op # "="}}

EqPrefix(cs, key) ==
    CHOOSE k \in 0..Len(key) :
        /\ \A i \in 1..k : key[i] \in EqBound(cs)
        /\ (k = Len(key) \/ key[k + 1] \notin EqBound(cs))

PrefixScore(cs, key) ==
    LET k == EqPrefix(cs, key) IN
    IF k < Len(key) /\ key[k + 1] \in RangeBound(cs) THEN k + 1 ELSE k

BestScore(cs, indexes) ==
    IF indexes = <<>> THEN 0
    ELSE CHOOSE m \in {PrefixScore(cs, indexes[i]) : i \in DOMAIN indexes} :
            \A i \in DOMAIN indexes : PrefixScore(cs, indexes[i]) <= m

\* the earliest index with the best score
EarliestBest(cs, indexes) ==
    CHOOSE i \in DOMAIN indexes :
        /\ PrefixScore(cs, indexes[i]) = BestScore(cs, indexes)
        /\ \A j \in 1..(i - 1) : PrefixScore(cs, indexes[j]) < BestScore(cs, indexes)

\* C5: for the scan of a delete / update, get_index_cols reports no index
\* exactly when every index of the table scores 0, and otherwise chooses the
\* earliest-declared index among those with the maximum score.
C5_IndexSelection ==
    (pc = "done" /\ plannerRoot.kind = "DML") =>
        LET sc == plannerRoot.subplan_
            indexes == db_[sc.tab_name_].indexes
        IN  IF BestScore(conds, indexes) = 0
            THEN sc.tag = "T_SeqScan" /\ sc.index_col_names_ = <<>>
            ELSE /\ sc.tag = "T_IndexScan"
                 /\ sc.index_col_names_ = indexes[EarliestBest(conds, indexes)]

\* three indexes with different keys, the first scoring less than the other
\* two, which tie at the maximum 2: the second is chosen
C5_Witness ==
    /\ pc = "done"
    /\ plannerRoot.kind = "DML"
    /\ Len(db_["t"].indexes) = 3
    /\ db_["t"].indexes[2] # db_["t"].indexes[3]
    /\ PrefixScore(conds, db_["t"].indexes[1]) = 1
    /\ PrefixScore(conds, db_["t"].indexes[2]) = 2
    /\ PrefixScore(conds, db_["t"].indexes[3]) = 2
    /\ plannerRoot.subplan_.index_col_names_ = db_["t"].indexes[2]

\* C6: every emitted ScanPlan with a non-empty index_col_names has matched
\* k >= 1 key columns, and its first k conditions have lhs_col.col_name
\* equal, in order, to the first k columns of the index.
C6_CondsInIndexOrder ==
    \A sc \in EmittedScans :
        sc.index_col_names_ # <<>> =>
            LET k == PrefixScore(sc.conds_, sc.index_col_names_) IN
            /\ k >= 1
            /\ \A i \in 1..k :
                  sc.conds_[i].lhs_col.col_name = sc.index_col_names_[i]

\* the position of a table in the FROM list
FromPos(t) == CHOOSE i \in DOMAIN tables : tables[i] = t

\* C7: the first JoinPlan built has the scan of the table earlier in the
\* FROM list as its left child and the later one as its right child, and
\* its condition has lhs_col on the left table.
C7_FirstJoinFromOrder ==
    [][(pc = "scanned" /\ pc' = "joining" /\ Len(conds) >= 1) =>
          LET j == table_join_executors' IN
          /\ FromPos(j.left_.tab_name_) < FromPos(j.right_.tab_name_)
          /\ j.conds_[1].lhs_col.tab_name = j.left_.tab_name_]_vars

\* C12: when a select has two or more FROM tables and neither join executor
\* is enabled, planning does not complete and no JoinPlan is built.
C12_NoJoinExecutorIsFatal ==
    (parse = "Select" /\ Len(tables) >= 2
        /\ ~enable_nestedloop_join /\ ~enable_sortmerge_join) =>
            /\ pc # "done"
            /\ JoinsOf(table_join_executors) = {}

\* the tables of the FROM list that have a column named as the ORDER BY column
OrderTables ==
    {t \in Range(tables) : \E i \in DOMAIN db_[t].cols : db_[t].cols[i] = query.order_col}

\* the SortPlan of a returned select plan, or NoPlan
SortOf(root) ==
    IF root.kind = "DML" /\ root.subplan_.kind = "Projection"
       /\ root.subplan_.subplan_.kind = "Sort"
    THEN root.subplan_.subplan_
    ELSE NoPlan

\* C13: when planning of a select is over, there is a SortPlan only if the
\* query has ORDER BY; with ORDER BY, a name found in exactly one FROM
\* table gives a SortPlan on that table's column, a name found in several
\* gives an AmbiguousColumn error and no SortPlan, and a name found in none
\* gives an UnknownColumn error and no SortPlan.
C13_SortColumnResolution ==
    (parse = "Select" /\ pc = "planned") =>
        IF ~query.has_sort THEN SortOf(plannerRoot) = NoPlan
        ELSE CASE Cardinality(OrderTables) = 1 ->
                    /\ SortOf(plannerRoot) # NoPlan
                    /\ SortOf(plannerRoot).sel_col_.tab_name \in OrderTables
                    /\ SortOf(plannerRoot).sel_col_.col_name = query.order_col
               [] Cardinality(OrderTables) > 1 ->
                    perr = "AmbiguousColumn" /\ SortOf(plannerRoot) = NoPlan
               [] OTHER ->
                    perr = "UnknownColumn" /\ SortOf(plannerRoot) = NoPlan

\* a plan with its optional SortPlan and then its optional AggregationPlan
\* taken off
Unsorted(plan) == IF plan.kind = "Sort" THEN plan.subplan_ ELSE plan

Unaggregated(plan) == IF plan.kind = "Aggregation" THEN plan.subplan_ ELSE plan

BuiltScans ==
    Range(table_scan_executors)
    \cup (IF plannerRoot.kind = "DML" /\ plannerRoot.subplan_.kind = "Scan"
          THEN {plannerRoot.subplan_} ELSE {})

\* C15: for every IndexScan emitted, index_col_names is exactly the prefix
\* of an index's key columns that the scan's conditions match, and it has
\* at least one column.
C15_IndexColsAreMatchedPrefix ==
    \A sc \in EmittedScans :
        sc.tag = "T_IndexScan" =>
            /\ Len(sc.index_col_names_) >= 1
            /\ \E ix \in Range(db_[sc.tab_name_].indexes) :
                  sc.index_col_names_ =
                      SubSeq(ix, 1, PrefixScore(sc.conds_, ix))

\* C15 as the code has it: for every IndexScan emitted, index_col_names is
\* the whole ordered key of an index of the scan's table, of at least one
\* column; for the scans of the scan construction and of delete / update it
\* is the key of the earliest index of maximum score under the scan's
\* conditions, and that score is at least 1.
C15_IndexColsAreFullKey ==
    /\ \A sc \in EmittedScans :
          sc.tag = "T_IndexScan" =>
              /\ Len(sc.index_col_names_) >= 1
              /\ sc.index_col_names_ \in Range(db_[sc.tab_name_].indexes)
    /\ \A sc \in BuiltScans :
          sc.tag = "T_IndexScan" =>
              LET indexes == db_[sc.tab_name_].indexes IN
              /\ BestScore(sc.conds_, indexes) >= 1
              /\ sc.index_col_names_ = indexes[EarliestBest(sc.conds_, indexes)]

\* the IndexScan of an update that matched one column of a two-column key
C15_Witness ==
    /\ parse = "Update"
    /\ plannerRoot.kind = "DML"
    /\ plannerRoot.subplan_.tag = "T_IndexScan"
    /\ Len(plannerRoot.subplan_.index_col_names_) = 2
    /\ PrefixScore(plannerRoot.subplan_.conds_,
                   plannerRoot.subplan_.index_col_names_) = 1

\* C21: a call of get_index_cols (here the one of a delete / update) that
\* chooses an index gives index_col_names the whole ordered key of that
\* index and replaces the condition list by a permutation of itself: first
\* the conditions matched to the k matched key columns, in key order, the
\* '=' condition for a column that has one, then every other condition in
\* its original relative order; a call that chooses no index gives an empty
\* index_col_names and leaves the condition list as it was.
C21_GetIndexColsOutput ==
    [][PlanDML =>
          LET indexes == db_[tables[1]].indexes
              sc == plannerRoot'.subplan_
              new_conds == conds'
          IN  IF BestScore(conds, indexes) = 0
              THEN sc.index_col_names_ = <<>> /\ new_conds = conds
              ELSE \A key \in {indexes[EarliestBest(conds, indexes)]} :
                   \A k \in {PrefixScore(conds, key)} :
                       /\ sc.index_col_names_ = key
                       /\ sc.conds_ = new_conds
                       /\ Len(new_conds) = Len(conds)
                       /\ \A c \in Range(conds) : Count(new_conds, c) = Count(conds, c)
                       /\ \A i \in 1..k :
                             /\ new_conds[i].lhs_col.col_name = key[i]
                             /\ (key[i] \in EqBound(conds) => new_conds[i].op = "=")
                       /\ \A i, j \in (k + 1)..Len(new_conds) :
                             i < j => new_conds[i].id < new_conds[j].id]_vars

\* a delete / update whose conditions were written x < v, y = v, x = v and
\* whose index on (x, y) was chosen: the conditions come out as x = v,
\* y = v, x < v
C21_Witness ==
    /\ pc = "done"
    /\ plannerRoot.kind = "DML"
    /\ plannerRoot.subplan_.index_col_names_ = <<"x", "y">>
    /\ Len(conds) = 3
    /\ <<conds[1].id, conds[2].id, conds[3].id>> = <<3, 2, 1>>
    /\ <<conds[1].op, conds[2].op, conds[3].op>> = <<"=", "=", "<">>
    /\ conds[3].lhs_col.col_name = "x"

\* has table tab an index whose leading key column is col
HasLeadingIndex(tab, col) ==
    \E i \in DOMAIN db_[tab].indexes : db_[tab].indexes[i][1] = col

\* C22: the first join built is a NestLoop when nestedloop is enabled; when
\* only sortmerge is enabled it is a SortMergeWithIndex over two IndexScans
\* if the left table has an index led by the condition's left column and the
\* right table has an index led by the condition's right column, and a
\* SortMerge otherwise.
C22_FirstJoinKind ==
    [][(FirstJoin /\ pc' = "joining") =>
          LET j == table_join_executors'
              c == j.conds_[1]
          IN  IF enable_nestedloop_join THEN j.tag = "T_NestLoop"
              ELSE IF /\ HasLeadingIndex(j.left_.tab_name_, c.lhs_col.col_name)
                      /\ HasLeadingIndex(j.right_.tab_name_, c.rhs_col.col_name)
              THEN /\ j.tag = "T_SortMergeWithIndex"
                   /\ j.left_.tag = "T_IndexScan"
                   /\ j.right_.tag = "T_IndexScan"
              ELSE j.tag = "T_SortMerge"]_vars

\* the tables of the leaves of a plan, from left to right
RECURSIVE Leaves(_)
Leaves(plan) ==
    IF plan.kind = "Join" THEN Leaves(plan.left_) \o Leaves(plan.right_)
    ELSE IF plan.kind = "Scan" THEN <<plan.tab_name_>>
    ELSE <<"">>

\* the FROM tables that a join condition (or, without conditions, the choice
\* of the first scan as the tree) brought into the tree
Brought == {tables[i] : i \in {k \in DOMAIN scantbl : scantbl[k] = 1}}

\* the FROM tables before position i that no join condition brought in
AttachedBefore(i) ==
    {tables[k] : k \in {m \in DOMAIN scantbl : m < i /\ scantbl[m] = -1}}

\* C23: the tree returned by make_one_rel has exactly one ScanPlan leaf per
\* FROM table and no other leaf; every table that no join condition brought
\* in is the left child of a NestLoop JoinPlan with no conditions whose
\* right child is the tree built before it: the tables the conditions
\* brought in and the tables attached earlier.
C23_CartesianClosure ==
    (parse = "Select" /\ pc = "done") =>
        /\ Len(Leaves(table_join_executors)) = Len(tables)
        /\ Range(Leaves(table_join_executors)) = Range(tables)
        /\ \A i \in DOMAIN scantbl :
              scantbl[i] = -1 =>
                 \E j \in JoinsOf(table_join_executors) :
                    /\ j.tag = "T_NestLoop"
                    /\ j.conds_ = <<>>
                    /\ j.left_ = table_scan_executors[i]
                    /\ TablesOf(j.right_) = Brought \cup AttachedBefore(i)
        /\ (Len(tables) = 2 /\ jconds = <<>> /\ joined_tables = <<>>) =>
              table_join_executors =
                  JoinPlan("T_NestLoop", table_scan_executors[2],
                           table_scan_executors[1], <<>>)

\* FROM a, b, c, d with conditions between b and d only: a, then c, are
\* attached above the join of b and d
C23_Witness ==
    /\ pc = "done"
    /\ scantbl = <<-1, 1, -1, 1>>
    /\ table_join_executors.left_ = table_scan_executors[3]
    /\ table_join_executors.right_.left_ = table_scan_executors[1]
    /\ table_join_executors.right_.right_.kind = "Join"
    /\ Len(table_join_executors.right_.right_.conds_) >= 1

\* the comparator that holds of (b, a) exactly when o holds of (a, b)
Inverse(o) ==
    CASE o = "<" -> ">"
      [] o = ">" -> "<"
      [] o = "<=" -> ">="
      [] o = ">=" -> "<="
      [] OTHER -> o

\* the condition c with its two sides exchanged and its comparator inverted
Flipped(c) ==
    [id |-> c.id, lhs_col |-> c.rhs_col, op |-> Inverse(c.op),
     is_rhs_val |-> c.is_rhs_val, rhs_col |-> c.lhs_col]

\* the tree plan with the condition c attached to the deepest JoinPlan that
\* has one of c's tables in its left subtree and the other in its right
\* subtree, flipped when the left subtree has c's rhs table
RECURSIVE AttachedAtDeepest(_, _)
AttachedAtDeepest(c, plan) ==
    IF plan.kind # "Join" THEN plan
    ELSE LET both == {c.lhs_col.tab_name, c.rhs_col.tab_name}
             L == TablesOf(plan.left_)
             R == TablesOf(plan.right_)
         IN  IF both \subseteq L
             THEN [plan EXCEPT !.left_ = AttachedAtDeepest(c, plan.left_)]
             ELSE IF both \subseteq R
             THEN [plan EXCEPT !.right_ = AttachedAtDeepest(c, plan.right_)]
             ELSE IF both \cap L # {} /\ both \cap R # {}
             THEN [plan EXCEPT !.conds_ =
                      Append(@, IF c.rhs_col.tab_name \in L THEN Flipped(c) ELSE c)]
             ELSE plan

\* the number of conditions attached to the JoinPlans of a plan
RECURSIVE JoinCondCount(_)
JoinCondCount(plan) ==
    IF plan.kind = "Join"
    THEN Len(plan.conds_) + JoinCondCount(plan.left_) + JoinCondCount(plan.right_)
    ELSE 0

\* C24: push_conds called by make_one_rel on a join tree that holds both
\* tables of a column-vs-column condition returns 3 and attaches the
\* condition to one JoinPlan only: the deepest one with one of the tables in
\* its left subtree and the other in its right subtree, with the sides
\* swapped and the comparator inverted exactly when the left subtree holds
\* the condition's rhs table; called on a ScanPlan it returns 1 when the
\* scan's table is the lhs table, 2 when it is the rhs table, 0 otherwise,
\* and changes nothing.
C24_PushConds ==
    [][(/\ NextJoin
        /\ InSeq(joined_tables, jconds[1].lhs_col.tab_name)
        /\ InSeq(joined_tables, jconds[1].rhs_col.tab_name)) =>
          LET it == jconds[1] IN
          /\ {it.lhs_col.tab_name, it.rhs_col.tab_name}
                \subseteq TablesOf(table_join_executors)
          /\ push_conds(it, table_join_executors).res = 3
          /\ table_join_executors' = AttachedAtDeepest(it, table_join_executors)
          /\ JoinCondCount(table_join_executors')
                = JoinCondCount(table_join_executors) + 1
          /\ \A i \in DOMAIN table_scan_executors :
                push_conds(it, table_scan_executors[i]) =
                    [res |-> IF tables[i] = it.lhs_col.tab_name THEN 1
                             ELSE IF tables[i] = it.rhs_col.tab_name THEN 2
                             ELSE 0,
                     plan |-> table_scan_executors[i]]]_vars

\* a returned tree in which the third condition, with comparator >= as
\* attached, was pushed down to a JoinPlan two levels below the root
C24_Witness ==
    /\ pc = "done"
    /\ table_join_executors.kind = "Join"
    /\ \E child \in {table_join_executors.left_, table_join_executors.right_} :
         /\ child.kind = "Join"
         /\ \E deep \in {child.left_, child.right_} :
              /\ deep.kind = "Join"
              /\ Len(deep.conds_) = 2
              /\ deep.conds_[2].op = ">="
              /\ deep.conds_[2].id = 3
              /\ deep.conds_[2].lhs_col.tab_name \in TablesOf(deep.left_)

\* the conditions attached to the ScanPlans and JoinPlans of a plan
RECURSIVE CondsOf(_)
CondsOf(plan) ==
    IF plan.kind = "Join"
    THEN plan.conds_ \o CondsOf(plan.left_) \o CondsOf(plan.right_)
    ELSE IF plan.kind = "Scan" THEN plan.conds_
    ELSE <<>>

\* the conditions on the scans of table_scan_executors from i on; with
\* pending set, only on those not yet taken into the tree
RECURSIVE ScanConds(_, _)
ScanConds(i, pending) ==
    IF i > Len(table_scan_executors) THEN <<>>
    ELSE (IF pending /\ scantbl[i] # -1 THEN <<>>
          ELSE table_scan_executors[i].conds_)
         \o ScanConds(i + 1, pending)

\* the conditions make_one_rel holds at each stage: in query->conds, on the
\* scans it has built, in the conditions still to be joined and in the tree
Held ==
    CASE pc = "start" -> conds
      [] pc = "scanned" -> conds \o ScanConds(1, FALSE)
      [] pc = "joining" ->
            jconds \o CondsOf(table_join_executors) \o ScanConds(1, TRUE)
      [] OTHER -> CondsOf(table_join_executors)

\* their ids: the positions they had in the WHERE clause
HeldIds == [i \in DOMAIN Held |-> Held[i].id]

\* C25: no step of make_one_rel drops or duplicates a condition, so every
\* condition of the input list is attached exactly once, to a ScanPlan or a
\* JoinPlan, in the tree returned.
C25_PredicateConservation ==
    [][(parse = "Select" /\ pc' \in {"scanned", "joining", "done"}) =>
          \A i \in Range(HeldIds) \cup Range(HeldIds') :
              Count(HeldIds', i) = Count(HeldIds, i)]_vars

\* C26: no step of make_one_rel changes the meaning of a condition: a
\* condition it holds after the step is the condition of the same id it held
\* before, either as it was or with its two sides exchanged and its
\* comparator inverted.
C26_MeaningPreserved ==
    [][(parse = "Select" /\ pc' \in {"scanned", "joining", "done"}) =>
          \A i \in DOMAIN Held' :
              \A j \in DOMAIN Held :
                  Held'[i].id = Held[j].id =>
                      Held'[i] \in {Held[j], Flipped(Held[j])}]_vars

(***************************************************************************)
(* LRUReplacer: the properties.                                            *)
(***************************************************************************)
\* the frames that have a node in the list
ListFrames(list) == {list[i].frame : i \in DOMAIN list}

\* C16: a call of victim with no evictable frame returns false and changes
\* nothing; with evictable frames it does not fail, returns true with the
\* frame that became evictable earliest, removes that frame from the
\* replacer, and Size decreases by exactly 1.
C16_VictimTakesEarliestEvictable ==
    [][Victim =>
          IF evictable = <<>>
          THEN /\ ~victim_ret'.ok
               /\ lru_phase' = "run"
               /\ LRUlist_' = LRUlist_
               /\ LRUhash_' = LRUhash_
          ELSE /\ lru_phase' = "run"
               /\ victim_ret' = [ok |-> TRUE, frame_id |-> Head(evictable)]
               /\ Head(evictable) \notin ListFrames(LRUlist_')
               /\ Size' = Size - 1]_vars

\* C17: a call of victim that returns true does not return a frame that has
\* been pinned since its last unpin.
C17_PinnedFrameNotEvicted ==
    [][(Victim /\ lru_phase' = "run" /\ victim_ret'.ok)
          => victim_ret'.frame_id \notin pinned]_vars

\* the list, the hash and the bound agree
StructureConsistent ==
    /\ \A i, j \in DOMAIN LRUlist_ : LRUlist_[i].frame = LRUlist_[j].frame => i = j
    /\ DOMAIN LRUhash_ = ListFrames(LRUlist_)
    /\ \A f \in DOMAIN LRUhash_ :
          \E i \in DOMAIN LRUlist_ :
              LRUlist_[i].node = LRUhash_[f] /\ LRUlist_[i].frame = f
    /\ Size <= max_size_

\* C27: after any sequence of victim / pin / unpin calls with frame ids in
\* [0, max_size_), the list holds no frame twice, the keys of the hash are
\* the frames of the list, each hash entry is the iterator of the node of its
\* own frame, and Size() <= max_size_; an unpin of a frame that is already
\* in the replacer leaves the list, the hash and Size as they were.
C27_StructureConsistency ==
    /\ []StructureConsistent
    /\ [][(Unpin /\ LRUlist_' = LRUlist_) => LRUhash_' = LRUhash_]_vars

====
